---- MODULE Spec2Model ----
(***************************************************************************)
(* Model of the change-and-stability controllers of MakeUofT2026RPI:       *)
(*   - cam_process.py : ImageAnalyzer and the capture loop of main()       *)
(*   - main.py        : the GSR part of process_serial_data()              *)
(*                                                                         *)
(* Time is counted in whole seconds.  Brightness and histogram bins are    *)
(* fixed-point numbers in hundredths (100 = 1.0); difference scores are    *)
(* fixed-point numbers in millionths (One = 1.0).                          *)
(***************************************************************************)
EXTENDS Integers, Sequences, FiniteSets, TLC

VARIABLES
    \* ---- cam_process.py: ImageAnalyzer fields (lines 46-51)
    last_sent_time,
    last_sent_image,
    recent_features,
    change_detected,
    stable_count,
    \* ---- cam_process.py: main() capture loop (lines 242-261)
    current_time,      \* the clock value read by the latest should_send_to_api
    loop_pc,           \* where the capture loop is: "capture" or "dispatch"
    result,            \* (should_send, reason) returned by the latest process_image
    notified,          \* the latest tick printed "Change detected!"
    response,          \* what the latest send_to_gemini returned: "none", "text", "failed"
    since_send,        \* ticks since the latest send decision (counted up to STABILITY_WINDOW + 1)
    ever_sent,         \* some tick has returned a send decision
    \* ---- main.py: GSR stability tracking (lines 22-28, 44-47)
    gsr_history,
    last_stable_gsr,
    gsr_change_detected,
    shared_num_instruments,
    shared_trigger_capture,
    current_sensor_data,
    raised,            \* the latest reading executed line 178
    sensor_error,      \* the exception the latest iteration printed at lines 190 or 196 ("none" if none)
    change_age,        \* readings processed since (and with) the one that set gsr_change_detected
    \* ---- the stabilization episode of spec section 8
    ep_step,           \* readings fed in the episode
    ep_raises,         \* times line 178 ran in the episode
    \* ---- the consumer of shared_trigger_capture (spec section 4.6)
    force_read,        \* what the latest consume_force_trigger() read: 0 or 1 (-1 before any)
    unconsumed,        \* times line 178 ran since the latest consume (counted up to MaxUnconsumed)
    coalesced,         \* times line 178 had run when the latest consume read the flag
    \* ---- one call of compare_features (lines 79-112)
    cmp_feat1,         \* its arguments feat1 and feat2
    cmp_feat2,
    score,             \* the value returned, in millionths (-1 before the call)
    \* ---- the scene in front of the camera
    scene,             \* the frame a capture delivers
    settled,           \* the scene does not change any more
    \* ---- main.py: camera process control (lines 38-41)
    camera_process,    \* None (<<>>) or the Process object (<<p>>)
    camera_running,
    camera_lock,       \* "free" or the function that holds the lock
    alive,             \* the camera processes that were started and have not ended
    started,           \* Process objects made so far
    handler_pc,        \* where on_start, on_stop and cleanup are: "idle" or "locked"
    camera_status,     \* the latest camera_status emitted ("none" before any)
    \* ---- gpio_in.py: the serial reader (lines 7-34)
    reader_pc,         \* read_serial_data is "reading" or has "ended"
    in_waiting,        \* the lines received on the port and not read yet
    serial_queue,
    serial_counter,
    received           \* lines the ESP32 has sent so far

analyzerVars == <<last_sent_time, last_sent_image, recent_features,
                  change_detected, stable_count>>

imageVars == <<analyzerVars, current_time, loop_pc, result, notified, response,
               since_send, ever_sent>>

gsrVars == <<gsr_history, last_stable_gsr, gsr_change_detected,
             shared_num_instruments, shared_trigger_capture>>

sensorVars == <<gsrVars, current_sensor_data, raised, sensor_error, change_age>>

episodeVars == <<ep_step, ep_raises>>

triggerVars == <<force_read, unconsumed, coalesced>>

scoreVars == <<cmp_feat1, cmp_feat2, score>>

sceneVars == <<scene, settled>>

lifecycleVars == <<camera_process, camera_running, camera_lock, alive, started,
                   handler_pc, camera_status>>

serialVars == <<reader_pc, in_waiting, serial_queue, serial_counter, received>>

vars == <<imageVars, sensorVars, episodeVars, triggerVars, scoreVars, sceneVars,
          lifecycleVars, serialVars>>

-----------------------------------------------------------------------------
\* Bounds of the model
StartTime == 20     \* clock when the analyzer is constructed (time.time() is an epoch clock)
MaxTime == 37       \* the capture loop is cut off at this clock value
MaxDelay == 2       \* longest time between the clock readings of consecutive ticks
MaxLatency == 1     \* longest time between the two clock readings of one tick
MaxUnconsumed == 2  \* raises of the trigger counted between two consumes
IntensityLength == 4  \* readings fed when the intensity level is looked at
MaxStarts == 3      \* camera Process objects made by on_start
MaxLines == 5       \* lines the ESP32 sends
MaxWaiting == 2     \* lines waiting on the port
MaxQueue == 2       \* lines waiting in serial_queue

-----------------------------------------------------------------------------
\* cam_process.py configuration (lines 17-21), thresholds in millionths
MIN_SEND_INTERVAL == 15
STABILITY_WINDOW == 3
CHANGE_THRESHOLD == 300000
STABILITY_THRESHOLD == 100000

One == 1000 * 1000
None == "None"

Min(a, b) == IF a < b THEN a ELSE b
Max(a, b) == IF a > b THEN a ELSE b
Abs(a) == IF a < 0 THEN -a ELSE a

\* The frames the camera delivers, by name.
Frames == {"F0", "FW", "F1"}

\* Frames at the ends of the feature ranges: black and white frames, and
\* frames that differ from another one in brightness, saturation or hue alone.
ExtremeFrames == {"FK", "FL", "FD", "FS", "FH"}

\* ImageAnalyzer.extract_features (lines 53-77): the summary of each frame,
\* brightness and three normalized histograms, in hundredths.  The analyzer's
\* fields hold a summary by the name of its frame.
extract_features(image) ==
    CASE image = "F0" -> [brightness |-> 20, hist_h |-> <<50, 50>>,
                          hist_s |-> <<50, 50>>, hist_v |-> <<50, 50>>]
      [] image = "FW" -> [brightness |-> 70, hist_h |-> <<70, 30>>,
                          hist_s |-> <<50, 50>>, hist_v |-> <<70, 30>>]
      [] image = "F1" -> [brightness |-> 95, hist_h |-> <<70, 30>>,
                          hist_s |-> <<50, 50>>, hist_v |-> <<70, 30>>]
      [] image = "FK" -> [brightness |-> 0, hist_h |-> <<100, 0>>,
                          hist_s |-> <<100, 0>>, hist_v |-> <<100, 0>>]
      [] image = "FL" -> [brightness |-> 100, hist_h |-> <<0, 100>>,
                          hist_s |-> <<0, 100>>, hist_v |-> <<0, 100>>]
      [] image = "FD" -> [brightness |-> 100, hist_h |-> <<100, 0>>,
                          hist_s |-> <<100, 0>>, hist_v |-> <<100, 0>>]
      [] image = "FS" -> [brightness |-> 20, hist_h |-> <<50, 50>>,
                          hist_s |-> <<100, 0>>, hist_v |-> <<50, 50>>]
      [] image = "FH" -> [brightness |-> 0, hist_h |-> <<0, 100>>,
                          hist_s |-> <<100, 0>>, hist_v |-> <<100, 0>>]

\* Mutant of ChiSqrAlt: the sum of the bins in place of their difference
RECURSIVE ChiSqrAlt_sum(_, _, _)
ChiSqrAlt_sum(h1, h2, n) ==
    IF n = 0 THEN 0
    ELSE ChiSqrAlt_sum(h1, h2, n - 1) +
         (IF h1[n] + h2[n] = 0 THEN 0
          ELSE (200 * (h1[n] + h2[n]) * (h1[n] + h2[n])) \div (h1[n] + h2[n]))

\* cv2.compareHist(h1, h2, HISTCMP_CHISQR_ALT): 2 * sum (a-b)^2 / (a+b), bins
\* with a+b = 0 skipped; in ten-thousandths.
RECURSIVE ChiSqrAlt(_, _, _)
ChiSqrAlt(h1, h2, n) ==
    IF n = 0 THEN 0
    ELSE ChiSqrAlt(h1, h2, n - 1) +
         (IF h1[n] + h2[n] = 0 THEN 0
          ELSE (200 * (h1[n] - h2[n]) * (h1[n] - h2[n])) \div (h1[n] + h2[n]))

compareHist(h1, h2) == ChiSqrAlt(h1, h2, Len(h1))

\* Mutants of compare_features: no clamping of the distances and of the total;
\* no difference when there is nothing to compare with
compare_features_unclamped(feat1, feat2) ==
    IF feat1 = None \/ feat2 = None THEN One
    ELSE LET a == extract_features(feat1)
             b == extract_features(feat2)
         IN  Abs(a.brightness - b.brightness) * 3000
             + compareHist(a.hist_h, b.hist_h) * 25
             + compareHist(a.hist_s, b.hist_s) * 20
             + compareHist(a.hist_v, b.hist_v) * 25
compare_features_cold_zero(feat1, feat2) ==
    IF feat1 = None \/ feat2 = None THEN 0
    ELSE LET a == extract_features(feat1)
             b == extract_features(feat2)
         IN  Min(Abs(a.brightness - b.brightness) * 3000
                 + Min(compareHist(a.hist_h, b.hist_h), 10000) * 25
                 + Min(compareHist(a.hist_s, b.hist_s), 10000) * 20
                 + Min(compareHist(a.hist_v, b.hist_v), 10000) * 25, One)

\* ImageAnalyzer.compare_features (lines 79-112); the result is in millionths
compare_features(feat1, feat2) ==
    IF feat1 = None \/ feat2 = None THEN One
    ELSE LET a == extract_features(feat1)
             b == extract_features(feat2)
             brightness_diff == Abs(a.brightness - b.brightness)
             hist_h_diff == compareHist(a.hist_h, b.hist_h)
             hist_s_diff == compareHist(a.hist_s, b.hist_s)
             hist_v_diff == compareHist(a.hist_v, b.hist_v)
             total_diff == brightness_diff * 3000
                           + Min(hist_h_diff, 10000) * 25
                           + Min(hist_s_diff, 10000) * 20
                           + Min(hist_v_diff, 10000) * 25
         IN  Min(total_diff, One)

\* compare_features tabulated over the summaries the analyzer can hold
diff_score == [a \in Frames \cup {None}, b \in Frames \cup {None} |->
                  compare_features(a, b)]

\* Mutant of is_scene_stable: every summary of the deque is compared
is_scene_stable_whole(features) ==
    IF Len(features) < STABILITY_WINDOW THEN FALSE
    ELSE \A i \in 1..(Len(features) - 1) :
             diff_score[features[i], features[i + 1]] <= STABILITY_THRESHOLD

\* ImageAnalyzer.is_scene_stable (lines 114-127) on a given deque content
is_scene_stable(features) ==
    IF Len(features) < STABILITY_WINDOW THEN FALSE
    ELSE LET recent == SubSeq(features, Len(features) - STABILITY_WINDOW + 1,
                              Len(features))
         IN  \A i \in 1..(Len(recent) - 1) :
                 diff_score[recent[i], recent[i + 1]] <= STABILITY_THRESHOLD

\* Mutant of deque_append: a deque of STABILITY_WINDOW summaries
deque_append_window(dq, x) ==
    IF Len(dq) >= STABILITY_WINDOW THEN Append(Tail(dq), x) ELSE Append(dq, x)

\* deque(maxlen=STABILITY_WINDOW + 1).append (lines 49, 166)
deque_append(dq, x) ==
    IF Len(dq) >= STABILITY_WINDOW + 1 THEN Append(Tail(dq), x) ELSE Append(dq, x)

\* The ImageAnalyzer object
Self == [last_sent_time |-> last_sent_time, last_sent_image |-> last_sent_image,
         recent_features |-> recent_features, change_detected |-> change_detected,
         stable_count |-> stable_count]

NoSend == [send |-> FALSE, reason |-> "None"]
Send(reason) == [send |-> TRUE, reason |-> reason]

\* Mutants of interval_passed: a strict comparison; the 10 seconds of the
\* comment at line 18
interval_passed_strict(self, now) == now - self.last_sent_time > MIN_SEND_INTERVAL
interval_passed_early(self, now) == now - self.last_sent_time >= 10

\* should_send_to_api, lines 131-135: the minimum interval has passed
interval_passed(self, now) == now - self.last_sent_time >= MIN_SEND_INTERVAL

\* should_send_to_api, lines 139-145: a significant change from the last sent image
significant_change(self, current_features) ==
    /\ self.last_sent_image # None
    /\ diff_score[current_features, self.last_sent_image] > CHANGE_THRESHOLD

\* Mutant of enough_stable_checks: one more stable check
enough_stable_checks_three(count) == count >= 3

\* should_send_to_api, line 154: the stable checks required
enough_stable_checks(count) == count >= 2

\* Mutant of should_send_to_api: every tick above CHANGE_THRESHOLD is taken
\* for the start of a change (no test of the flag at line 146)
should_send_to_api_level(self, current_features, now) ==
    LET keep == [ret |-> NoSend, change_detected |-> self.change_detected,
                 stable_count |-> self.stable_count, notified |-> FALSE]
    IN
    IF interval_passed(self, now)
    THEN [keep EXCEPT !.ret = Send("scheduled")]
    ELSE IF significant_change(self, current_features)
    THEN IF is_scene_stable(self.recent_features)
         THEN [ret |-> NoSend, change_detected |-> TRUE, stable_count |-> 1,
               notified |-> TRUE]
         ELSE [ret |-> NoSend, change_detected |-> TRUE, stable_count |-> 0,
               notified |-> TRUE]
    ELSE keep

\* ImageAnalyzer.should_send_to_api (lines 129-161).  `self` already holds the
\* appended summary; `now` is the clock read at line 131.  Gives the return
\* value and the fields the method assigns.
should_send_to_api(self, current_features, now) ==
    LET keep == [ret |-> NoSend, change_detected |-> self.change_detected,
                 stable_count |-> self.stable_count, notified |-> FALSE]
    IN
    IF interval_passed(self, now)
    THEN [keep EXCEPT !.ret = Send("scheduled")]
    ELSE IF significant_change(self, current_features)
    THEN LET edge == ~self.change_detected
             count == IF edge THEN 0 ELSE self.stable_count
         IN  IF is_scene_stable(self.recent_features)
             THEN IF enough_stable_checks(count + 1)
                  THEN [ret |-> Send("stable_change"), change_detected |-> FALSE,
                        stable_count |-> 0, notified |-> edge]
                  ELSE [ret |-> NoSend, change_detected |-> TRUE,
                        stable_count |-> count + 1, notified |-> edge]
             ELSE [ret |-> NoSend, change_detected |-> TRUE, stable_count |-> 0,
                   notified |-> edge]
    ELSE keep

\* Mutant of process_image: the baseline follows every captured frame
process_image_latest(self, features, now, later) ==
    LET appended == [self EXCEPT !.recent_features = deque_append(@, features)]
        d == should_send_to_api(appended, features, now)
        decided == [appended EXCEPT !.change_detected = d.change_detected,
                                    !.stable_count = d.stable_count,
                                    !.last_sent_image = features]
    IN  [self |-> IF d.ret.send
                  THEN [decided EXCEPT !.last_sent_time = later]
                  ELSE decided,
         ret |-> d.ret,
         notified |-> d.notified]

\* ImageAnalyzer.process_image (lines 163-175).  `now` is the clock read by
\* should_send_to_api, `later` the clock read at line 171.
process_image(self, features, now, later) ==
    LET appended == [self EXCEPT !.recent_features = deque_append(@, features)]
        d == should_send_to_api(appended, features, now)
        decided == [appended EXCEPT !.change_detected = d.change_detected,
                                    !.stable_count = d.stable_count]
    IN  [self |-> IF d.ret.send
                  THEN [decided EXCEPT !.last_sent_time = later,
                                       !.last_sent_image = features]
                  ELSE decided,
         ret |-> d.ret,
         notified |-> d.notified]

\* The latest clock value the capture loop has read.
Clock == Max(current_time, last_sent_time)

\* One iteration of the capture loop of main() up to the send decision
\* (lines 244-253, 256-261): capture, process_image, and on a send decision the
\* call of get_gemini_response, which line 254 makes in the loop's own thread
\* while it builds the Thread's arguments.  `delay` is the time since the
\* loop last read the clock, `latency` the time between the clock reads of lines
\* 131 and 171 (the second read happens on a send decision only).
capture(image, delay, latency) ==
    /\ loop_pc = "capture"
    /\ Clock + delay + latency <= MaxTime
    /\ LET now == Clock + delay
           p == process_image(Self, image, now, now + latency)
       IN  /\ (~p.ret.send => latency = 0)
           /\ last_sent_time' = p.self.last_sent_time
           /\ last_sent_image' = p.self.last_sent_image
           /\ recent_features' = p.self.recent_features
           /\ change_detected' = p.self.change_detected
           /\ stable_count' = p.self.stable_count
           /\ current_time' = now
           /\ result' = p.ret
           /\ notified' = p.notified
           /\ loop_pc' = IF p.ret.send THEN "dispatch" ELSE "capture"
           /\ response' = IF p.ret.send THEN "none" ELSE response
           /\ since_send' = IF p.ret.send THEN 0
                            ELSE Min(since_send + 1, STABILITY_WINDOW + 1)
           /\ ever_sent' = (ever_sent \/ p.ret.send)
    /\ UNCHANGED <<sensorVars, episodeVars, triggerVars, scoreVars, sceneVars,
                 lifecycleVars, serialVars>>

\* Mutant of get_gemini_response: a failed dispatch makes the next tick resend
get_gemini_response_retry(ok) ==
    /\ loop_pc = "dispatch"
    /\ response' = IF ok THEN "text" ELSE "failed"
    /\ loop_pc' = "capture"
    /\ last_sent_time' = IF ok THEN last_sent_time ELSE 0
    /\ UNCHANGED <<last_sent_image, recent_features, change_detected, stable_count>>
    /\ UNCHANGED <<current_time, result, notified, since_send, ever_sent>>
    /\ UNCHANGED <<sensorVars, episodeVars, triggerVars, scoreVars, sceneVars,
                 lifecycleVars, serialVars>>

\* get_gemini_response / send_to_gemini (lines 184-214) returning to the loop:
\* send_to_gemini returns the text, or None after catching any exception; then
\* lines 254-255 start a thread without a target and the loop sleeps.
get_gemini_response(ok) ==
    /\ loop_pc = "dispatch"
    /\ response' = IF ok THEN "text" ELSE "failed"
    /\ loop_pc' = "capture"
    /\ UNCHANGED <<analyzerVars, current_time, result, notified, since_send, ever_sent>>
    /\ UNCHANGED <<sensorVars, episodeVars, triggerVars, scoreVars, sceneVars,
                 lifecycleVars, serialVars>>

CaptureTick == \E f \in Frames, d \in 1..MaxDelay, e \in 0..MaxLatency : capture(f, d, e)
DispatchReturn == \E ok \in BOOLEAN : get_gemini_response(ok)

\* ImageAnalyzer.__init__ (lines 46-51) and the start of main()
ImageInit ==
    /\ last_sent_time = 0
    /\ last_sent_image = None
    /\ recent_features = <<>>
    /\ change_detected = FALSE
    /\ stable_count = 0
    /\ current_time = StartTime
    /\ loop_pc = "capture"
    /\ result = NoSend
    /\ notified = FALSE
    /\ response = "none"
    /\ since_send = 0
    /\ ever_sent = FALSE

-----------------------------------------------------------------------------
\* main.py: GSR stability tracking (lines 23-25)
GSR_CHANGE_THRESHOLD == 15
GSR_STABILITY_WINDOW == 5
GSR_STABILITY_THRESHOLD == 5

\* last_stable_gsr is None (<<>>) or a reading (<<g>>)
Unset == <<>>

\* The gsr values the serial port delivers, and the lines that carry them; a
\* line is the dict json.loads gave, here with or without its gsr key.
Readings == {50, 55, 60, 65, 90}
SerialLines == {[bpm |-> 72, gsr |-> g, temp |-> 36] : g \in Readings}
               \cup {[bpm |-> 72, temp |-> 36]}

SeqMax(h) == CHOOSE x \in {h[i] : i \in 1..Len(h)} : \A j \in 1..Len(h) : h[j] <= x
SeqMin(h) == CHOOSE x \in {h[i] : i \in 1..Len(h)} : \A j \in 1..Len(h) : h[j] >= x

\* Mutant of num_instruments: the thresholds belong to the lower level
num_instruments_inclusive(gsr_value) ==
    IF gsr_value <= 30 THEN 2
    ELSE IF gsr_value <= 50 THEN 3
    ELSE IF gsr_value <= 85 THEN 5
    ELSE 6

\* process_serial_data, lines 149-156: num_instruments from the GSR value
num_instruments(gsr_value) ==
    IF gsr_value < 30 THEN 2
    ELSE IF gsr_value < 50 THEN 3
    ELSE IF gsr_value < 85 THEN 5
    ELSE 6

\* process_serial_data, lines 161-163: the history keeps the latest readings
history_append(history, gsr_value) ==
    LET h == Append(history, gsr_value)
    IN  IF Len(h) > GSR_STABILITY_WINDOW THEN Tail(h) ELSE h

\* Mutants of history_stable: a strict comparison; no test of the length
history_stable_strict(history) ==
    /\ Len(history) >= GSR_STABILITY_WINDOW
    /\ SeqMax(history) - SeqMin(history) < GSR_STABILITY_THRESHOLD
history_stable_short(history) ==
    SeqMax(history) - SeqMin(history) <= GSR_STABILITY_THRESHOLD

\* process_serial_data, lines 173-175 and 183-185: the history is full and
\* its range is within the stability threshold
history_stable(history) ==
    /\ Len(history) >= GSR_STABILITY_WINDOW
    /\ SeqMax(history) - SeqMin(history) <= GSR_STABILITY_THRESHOLD

\* process_serial_data, lines 166-168: a drastic change is to be flagged
drastic_change(gsr_value, last_stable, detected) ==
    /\ last_stable # Unset
    /\ Abs(gsr_value - last_stable[1]) >= GSR_CHANGE_THRESHOLD
    /\ ~detected

\* Mutant of track_gsr: a stable history raises the trigger without a flagged
\* change (no test of gsr_change_detected at line 173)
track_gsr_unflagged(g, gsr_value) ==
    LET history == history_append(g.gsr_history, gsr_value)
        set == drastic_change(gsr_value, g.last_stable_gsr, g.gsr_change_detected)
        detected == g.gsr_change_detected \/ set
        stabilized == history_stable(history)
        stable1 == IF stabilized THEN <<gsr_value>> ELSE g.last_stable_gsr
        bootstrap == stable1 = Unset /\ history_stable(history)
    IN  [gsr_history |-> history,
         gsr_change_detected |-> IF stabilized THEN FALSE ELSE detected,
         last_stable_gsr |-> IF bootstrap THEN <<gsr_value>> ELSE stable1,
         shared_trigger_capture |-> IF stabilized THEN 1 ELSE g.shared_trigger_capture,
         set |-> set,
         raised |-> stabilized]

\* Mutant of track_gsr: the flag follows the latest reading (cleared by a
\* reading that does not stabilize)
track_gsr_level(g, gsr_value) ==
    LET history == history_append(g.gsr_history, gsr_value)
        set == drastic_change(gsr_value, g.last_stable_gsr, g.gsr_change_detected)
        detected == g.gsr_change_detected \/ set
        stabilized == detected /\ history_stable(history)
        stable1 == IF stabilized THEN <<gsr_value>> ELSE g.last_stable_gsr
        bootstrap == stable1 = Unset /\ history_stable(history)
    IN  [gsr_history |-> history,
         gsr_change_detected |-> IF stabilized THEN FALSE ELSE detected,
         last_stable_gsr |-> IF bootstrap THEN <<gsr_value>> ELSE stable1,
         shared_trigger_capture |-> IF stabilized THEN 1 ELSE 0,
         set |-> set,
         raised |-> stabilized]

\* process_serial_data, lines 160-187 on the tracking state `g` (gsr_history,
\* last_stable_gsr, gsr_change_detected, shared_trigger_capture) for one
\* integer reading.  `set` tells that line 169 ran, `raised` that line 178 ran.
track_gsr(g, gsr_value) ==
    LET history == history_append(g.gsr_history, gsr_value)
        set == drastic_change(gsr_value, g.last_stable_gsr, g.gsr_change_detected)
        detected == g.gsr_change_detected \/ set
        stabilized == detected /\ history_stable(history)
        stable1 == IF stabilized THEN <<gsr_value>> ELSE g.last_stable_gsr
        bootstrap == stable1 = Unset /\ history_stable(history)
    IN  [gsr_history |-> history,
         gsr_change_detected |-> IF stabilized THEN FALSE ELSE detected,
         last_stable_gsr |-> IF bootstrap THEN <<gsr_value>> ELSE stable1,
         shared_trigger_capture |-> IF stabilized THEN 1 ELSE g.shared_trigger_capture,
         set |-> set,
         raised |-> stabilized]

Gsr == [gsr_history |-> gsr_history, last_stable_gsr |-> last_stable_gsr,
        gsr_change_detected |-> gsr_change_detected,
        shared_trigger_capture |-> shared_trigger_capture]

\* lines 133-141: the keys of the line that current_sensor_data takes over
update_sensor_data(data, serial_line) ==
    [k \in DOMAIN data |-> IF k \in DOMAIN serial_line THEN serial_line[k] ELSE data[k]]

\* process_serial_data, lines 147-187: the body of the inner try once line
\* 145 has given an integer
adjust_instruments(gsr_value) ==
    LET t == track_gsr(Gsr, gsr_value)
    IN  /\ shared_num_instruments' = num_instruments(gsr_value)
        /\ gsr_history' = t.gsr_history
        /\ last_stable_gsr' = t.last_stable_gsr
        /\ gsr_change_detected' = t.gsr_change_detected
        /\ shared_trigger_capture' = t.shared_trigger_capture
        /\ raised' = t.raised
        /\ sensor_error' = "none"
        /\ change_age' = IF t.set THEN 1
                         ELSE IF gsr_change_detected
                              THEN Min(change_age + 1, GSR_STABILITY_WINDOW)
                              ELSE 0

\* Mutant of reading_rejected: a reading that cannot be used restarts the
\* stability tracking
reading_rejected_restart(error) ==
    /\ raised' = FALSE
    /\ sensor_error' = error
    /\ gsr_history' = <<>>
    /\ gsr_change_detected' = FALSE
    /\ UNCHANGED <<last_stable_gsr, shared_num_instruments, shared_trigger_capture,
                   change_age>>

\* process_serial_data, lines 189-197: line 145 raised `error`, the handler
\* at line 189 (ValueError, IndexError, KeyError) or the one at line 195 (any
\* other exception) prints it and the loop goes to its next iteration
reading_rejected(error) ==
    /\ raised' = FALSE
    /\ sensor_error' = error
    /\ UNCHANGED <<gsrVars, change_age>>

\* One iteration of the loop of process_serial_data (lines 126-197) on the
\* line it got from serial_queue, a dict whose gsr, if it has one, is an
\* integer.  A line without "gsr" raises KeyError at line 145, which line 189
\* catches: only current_sensor_data has changed.
process_serial_data(serial_line) ==
    /\ current_sensor_data' = update_sensor_data(current_sensor_data, serial_line)
    /\ IF "gsr" \in DOMAIN serial_line
       THEN adjust_instruments(serial_line.gsr)
       ELSE reading_rejected("KeyError")

\* The values of "gsr" that are no integers: JSON strings, and JSON null
\* (None)
GsrTexts == {"65", "abc", "6.5", ""}

\* int(serial_line["gsr"]) at line 145 for such a value: the integer a
\* decimal numeral denotes, ValueError for any other string, TypeError for None
int_of_text(value) ==
    CASE value = "65" -> [ok |-> TRUE, value |-> 65, error |-> "none"]
      [] value = None -> [ok |-> FALSE, value |-> 0, error |-> "TypeError"]
      [] OTHER -> [ok |-> FALSE, value |-> 0, error |-> "ValueError"]

TextLines == {[bpm |-> 72, gsr |-> t, temp |-> 36] : t \in GsrTexts \cup {None}}

\* The same iteration on a line whose gsr is a string or null
process_serial_text(serial_line) ==
    /\ current_sensor_data' = update_sensor_data(current_sensor_data, serial_line)
    /\ LET converted == int_of_text(serial_line.gsr)
       IN  IF converted.ok
           THEN adjust_instruments(converted.value)
           ELSE reading_rejected(converted.error)

ProcessSerial ==
    /\ \E line \in SerialLines : process_serial_data(line)
    /\ UNCHANGED <<imageVars, episodeVars, triggerVars, scoreVars, sceneVars,
                 lifecycleVars, serialVars>>

\* main.py module state at import (lines 26-28, 32-36, 44, 47)
SensorInit ==
    /\ gsr_history = <<>>
    /\ last_stable_gsr = Unset
    /\ gsr_change_detected = FALSE
    /\ shared_num_instruments = 3
    /\ shared_trigger_capture = 0
    /\ current_sensor_data = [bpm |-> 0, gsr |-> 0, temp |-> 0]
    /\ raised = FALSE
    /\ sensor_error = "none"
    /\ change_age = 0

EpisodeIdle == ep_step = 0 /\ ep_raises = 0

\* Nothing has read the trigger; no call of compare_features is being looked
\* at; the camera looks at a scene that may still change
TriggerIdle == force_read = -1 /\ unconsumed = 0 /\ coalesced = 0
ScoreIdle == cmp_feat1 = None /\ cmp_feat2 = None /\ score = -1
SceneIdle == scene = "F0" /\ settled = FALSE

Handlers == {"on_start", "on_stop", "cleanup"}

\* main.py at import (lines 38-41): no camera process, the lock free
LifecycleIdle ==
    /\ camera_process = Unset
    /\ camera_running = FALSE
    /\ camera_lock = "free"
    /\ alive = {}
    /\ started = 0
    /\ handler_pc = [h \in Handlers |-> "idle"]
    /\ camera_status = "none"

\* gpio_in.py once start_serial_thread() has run and the port is open (lines
\* 7-17, 36-40)
SerialIdle ==
    /\ reader_pc = "reading"
    /\ in_waiting = <<>>
    /\ serial_queue = <<>>
    /\ serial_counter = 0
    /\ received = 0

Idle == EpisodeIdle /\ TriggerIdle /\ ScoreIdle /\ SceneIdle /\ LifecycleIdle /\ SerialIdle

-----------------------------------------------------------------------------
\* The capture loop with its analyzer
Init == ImageInit /\ SensorInit /\ Idle

Next == CaptureTick \/ DispatchReturn

Spec == Init /\ [][Next]_vars

\* The sensor loop
SensorNext == ProcessSerial

SensorSpec == Init /\ [][SensorNext]_vars

\* The stabilization episode of spec section 8: the sensor loop after five
\* readings of 50 (last_stable_gsr bootstrapped to 50) gets a reading of 90 and
\* then five more readings.
EpisodeStart ==
    /\ gsr_history = <<50, 50, 50, 50, 50>>
    /\ last_stable_gsr = <<50>>
    /\ gsr_change_detected = FALSE
    /\ shared_num_instruments = 5
    /\ shared_trigger_capture = 0
    /\ current_sensor_data = [bpm |-> 72, gsr |-> 50, temp |-> 36]
    /\ raised = FALSE
    /\ sensor_error = "none"
    /\ change_age = 0

EpisodeJump == <<90>>
EpisodeReadings == {50, 55, 86, 90, 91, 96}
EpisodeLength == 1 + GSR_STABILITY_WINDOW

EpisodeFeed(gsr_value) ==
    /\ process_serial_data([bpm |-> 72, gsr |-> gsr_value, temp |-> 36])
    /\ ep_step' = ep_step + 1
    /\ ep_raises' = ep_raises + (IF raised' THEN 1 ELSE 0)
    /\ UNCHANGED <<imageVars, triggerVars, scoreVars, sceneVars,
                 lifecycleVars, serialVars>>

FeedJump == ep_step = 0 /\ EpisodeFeed(EpisodeJump[1])
FeedFurther ==
    /\ ep_step \in 1..(EpisodeLength - 1)
    /\ \E g \in EpisodeReadings : EpisodeFeed(g)

EpisodeInit == ImageInit /\ EpisodeStart /\ Idle

EpisodeNext == FeedJump \/ FeedFurther

EpisodeSpec == EpisodeInit /\ [][EpisodeNext]_vars

-----------------------------------------------------------------------------
\* The sensor loop and the reader of its trigger.  The camera process that
\* main.py starts with shared_trigger_capture (line 80) is not the main() of
\* cam_process.py; its side follows spec section 4.6: consume_force_trigger()
\* reads and clears the shared flag.
consume_force_trigger ==
    /\ force_read' = shared_trigger_capture
    /\ shared_trigger_capture' = 0
    /\ coalesced' = unconsumed
    /\ unconsumed' = 0
    /\ UNCHANGED <<gsr_history, last_stable_gsr, gsr_change_detected, shared_num_instruments>>
    /\ UNCHANGED <<current_sensor_data, raised, sensor_error, change_age>>
    /\ UNCHANGED <<imageVars, episodeVars, scoreVars, sceneVars,
                 lifecycleVars, serialVars>>

TriggerReadings == {50, 90}

\* The sensor loop processes a reading while the trigger has a reader
TriggerFeed ==
    /\ \E g \in TriggerReadings :
          process_serial_data([bpm |-> 72, gsr |-> g, temp |-> 36])
    /\ unconsumed' = Min(unconsumed + (IF raised' THEN 1 ELSE 0), MaxUnconsumed)
    /\ UNCHANGED <<force_read, coalesced>>
    /\ UNCHANGED <<imageVars, episodeVars, scoreVars, sceneVars,
                 lifecycleVars, serialVars>>

TriggerNext == TriggerFeed \/ consume_force_trigger

TriggerSpec == Init /\ [][TriggerNext]_vars

\* The sensor loop fed readings around the thresholds of lines 149-156, from
\* the state at import or from the state after five readings of 50.
IntensityReadings == {-5, 0, 29, 30, 49, 50, 84, 85, 1000}

IntensityFeed ==
    /\ ep_step < IntensityLength
    /\ \E g \in IntensityReadings : EpisodeFeed(g)

IntensityInit == Init \/ EpisodeInit

IntensityNext == IntensityFeed

IntensitySpec == IntensityInit /\ [][IntensityNext]_vars

-----------------------------------------------------------------------------
\* The capture loop in front of a scene that changes and at some point
\* settles.  The loop runs for ever (while True, line 243), so the clock is
\* kept relative to the latest send decision: the analyzer uses the clock only
\* in the difference of line 132, and on a send decision the origin of the
\* clock is moved to that tick.

\* One iteration of the capture loop as in `capture`, on the frame of the scene
capture_scene(delay) ==
    /\ loop_pc = "capture"
    /\ LET now == Clock + delay
           p == process_image(Self, scene, now, now)
           origin == IF p.ret.send THEN now ELSE 0
       IN  /\ last_sent_time' = p.self.last_sent_time - origin
           /\ last_sent_image' = p.self.last_sent_image
           /\ recent_features' = p.self.recent_features
           /\ change_detected' = p.self.change_detected
           /\ stable_count' = p.self.stable_count
           /\ current_time' = now - origin
           /\ result' = p.ret
           /\ notified' = p.notified
           /\ loop_pc' = IF p.ret.send THEN "dispatch" ELSE "capture"
           /\ response' = IF p.ret.send THEN "none" ELSE response
           /\ since_send' = IF p.ret.send THEN 0
                            ELSE Min(since_send + 1, STABILITY_WINDOW + 1)
           /\ ever_sent' = (ever_sent \/ p.ret.send)
    /\ UNCHANGED <<sensorVars, episodeVars, triggerVars, scoreVars, sceneVars,
                 lifecycleVars, serialVars>>

SceneTick == \E d \in 1..MaxDelay : capture_scene(d)

\* What is in front of the camera changes between two captures
SceneFrames == {"F0", "F1"}

SceneChanges ==
    /\ ~settled
    /\ scene' \in SceneFrames \ {scene}
    /\ UNCHANGED settled
    /\ UNCHANGED <<imageVars, sensorVars, episodeVars, triggerVars, scoreVars,
                 lifecycleVars, serialVars>>

\* From now on it does not change any more
SceneSettles ==
    /\ ~settled
    /\ settled' = TRUE
    /\ UNCHANGED scene
    /\ UNCHANGED <<imageVars, sensorVars, episodeVars, triggerVars, scoreVars,
                 lifecycleVars, serialVars>>

SceneNext == SceneTick \/ DispatchReturn \/ SceneChanges \/ SceneSettles

\* The loop never stops capturing, and a call of get_gemini_response returns
\* (send_to_gemini gives the text or, after any exception, None)
SceneSpec ==
    /\ Init
    /\ [][SceneNext]_vars
    /\ WF_vars(SceneTick)
    /\ WF_vars(DispatchReturn)

-----------------------------------------------------------------------------
\* main.py: on_start, on_stop and cleanup (lines 64-120, 251-267), each run by
\* its own thread; all three take camera_lock for their whole body.

otherVars == <<imageVars, sensorVars, episodeVars, triggerVars, scoreVars, sceneVars,
               serialVars>>

\* `with camera_lock:` (lines 70, 97, 256): the function waits for the lock
acquire(h) ==
    /\ handler_pc[h] = "idle"
    /\ camera_lock = "free"
    /\ h = "on_start" => (camera_running \/ started < MaxStarts)
    /\ camera_lock' = h
    /\ handler_pc' = [handler_pc EXCEPT ![h] = "locked"]
    /\ UNCHANGED <<camera_process, camera_running, alive, started, camera_status>>
    /\ UNCHANGED otherVars

\* the end of the with block: the lock is released and the function returns
release(h) ==
    /\ camera_lock' = "free"
    /\ handler_pc' = [handler_pc EXCEPT ![h] = "idle"]

\* on_start under the lock (lines 71-89).  `outcome` is what happens in the
\* try: "started"; "start_failed", camera_process.start() raises after line 77
\* has assigned the Process object; "emit_failed", the emit of line 85 raises
\* after the process was started.
on_start(outcome) ==
    /\ handler_pc["on_start"] = "locked"
    /\ IF camera_running
       THEN /\ camera_status' = "already_running"
            /\ UNCHANGED <<camera_process, camera_running, alive, started>>
       ELSE /\ started' = started + 1
            /\ camera_process' = <<started + 1>>
            /\ IF outcome = "start_failed"
               THEN UNCHANGED <<camera_running, alive>>
               ELSE /\ alive' = alive \cup {started + 1}
                    /\ camera_running' = TRUE
            /\ camera_status' = IF outcome = "started" THEN "started" ELSE "error"
    /\ release("on_start")
    /\ UNCHANGED otherVars

\* on_stop under the lock (lines 98-120).  `outcome` is what happens in the
\* try: "stopped"; "force_stopped", the join of line 106 timed out and the
\* process was killed; "emit_failed", an emit raises after the process has
\* ended; "terminate_failed", camera_process.terminate() raises and the process
\* goes on.  The finally block runs in every case.
on_stop(outcome) ==
    /\ handler_pc["on_stop"] = "locked"
    /\ IF ~camera_running \/ camera_process = Unset
       THEN /\ camera_status' = "not_running"
            /\ UNCHANGED <<camera_process, camera_running, alive>>
       ELSE /\ alive' = IF outcome = "terminate_failed" THEN alive
                        ELSE alive \ {camera_process[1]}
            /\ camera_status' = IF outcome \in {"stopped", "force_stopped"}
                                THEN outcome ELSE "error"
            /\ camera_process' = Unset
            /\ camera_running' = FALSE
    /\ release("on_stop")
    /\ UNCHANGED started
    /\ UNCHANGED otherVars

\* cleanup under the lock (lines 257-267): "terminated", or "terminate_failed"
\* with the exception swallowed by the bare except of line 264
cleanup(outcome) ==
    /\ handler_pc["cleanup"] = "locked"
    /\ IF camera_running /\ camera_process # Unset
       THEN /\ alive' = IF outcome = "terminate_failed" THEN alive
                        ELSE alive \ {camera_process[1]}
            /\ camera_process' = Unset
            /\ camera_running' = FALSE
       ELSE UNCHANGED <<camera_process, camera_running, alive>>
    /\ release("cleanup")
    /\ UNCHANGED <<started, camera_status>>
    /\ UNCHANGED otherVars

\* A camera process ends by itself
process_exits ==
    /\ \E p \in alive : alive' = alive \ {p}
    /\ UNCHANGED <<camera_process, camera_running, camera_lock, started, handler_pc,
                   camera_status>>
    /\ UNCHANGED otherVars

Acquire == \E h \in Handlers : acquire(h)
OnStart == \E outcome \in {"started", "start_failed", "emit_failed"} : on_start(outcome)
OnStop == \E outcome \in {"stopped", "force_stopped", "emit_failed", "terminate_failed"} :
             on_stop(outcome)
Cleanup == \E outcome \in {"terminated", "terminate_failed"} : cleanup(outcome)

LifecycleNext == Acquire \/ OnStart \/ OnStop \/ Cleanup \/ process_exits

LifecycleSpec == Init /\ [][LifecycleNext]_vars

-----------------------------------------------------------------------------
\* The sensor loop fed lines of every kind: with an integer gsr, without gsr,
\* and with a gsr that is a string or null
PlainLines == {[bpm |-> 72, gsr |-> g, temp |-> 36] : g \in TriggerReadings}
              \cup {[bpm |-> 72, temp |-> 36]}

ProcessPlain ==
    /\ \E line \in PlainLines : process_serial_data(line)
    /\ UNCHANGED <<imageVars, episodeVars, triggerVars, scoreVars, sceneVars,
                 lifecycleVars, serialVars>>

ProcessText ==
    /\ \E line \in TextLines : process_serial_text(line)
    /\ UNCHANGED <<imageVars, episodeVars, triggerVars, scoreVars, sceneVars,
                 lifecycleVars, serialVars>>

LineNext == ProcessPlain \/ ProcessText

LineSpec == Init /\ [][LineNext]_vars

-----------------------------------------------------------------------------
\* The serial reader of gpio_in.py with the sensor loop behind serial_queue.
\* The lines the ESP32 sends are named by what they hold: a JSON object with
\* a gsr of 50 or of 90, the JSON object {}, a text that is no JSON, and bytes
\* that are no UTF-8.
PortTexts == {"reading_50", "reading_90", "empty_object", "not_json", "not_utf8"}

\* json.loads(ser.readline().decode('utf-8').rstrip()) at line 21: the dict
\* the text denotes, or the exception that decode or json.loads raises
json_loads(text) ==
    CASE text = "reading_50" ->
             [error |-> "none", line |-> [bpm |-> 72, gsr |-> 50, temp |-> 36]]
      [] text = "reading_90" ->
             [error |-> "none", line |-> [bpm |-> 72, gsr |-> 90, temp |-> 36]]
      [] text = "empty_object" -> [error |-> "none", line |-> <<>>]
      [] text = "not_utf8" -> [error |-> "UnicodeDecodeError", line |-> <<>>]
      [] OTHER -> [error |-> "JSONDecodeError", line |-> <<>>]

\* A well-formed non-empty line: json.loads gives a dict that is not empty
well_formed(text) ==
    json_loads(text).error = "none" /\ DOMAIN json_loads(text).line # {}

\* The ESP32 sends a line, whether or not anything still reads the port
line_arrives(text) ==
    /\ received < MaxLines
    /\ Len(in_waiting) < MaxWaiting
    /\ in_waiting' = Append(in_waiting, text)
    /\ received' = received + 1
    /\ UNCHANGED <<reader_pc, serial_queue, serial_counter>>

\* One iteration of the loop of read_serial_data (lines 19-28) with a line
\* waiting.  An exception of line 21 leaves the loop: line 30 catches it
\* outside the loop, line 34 closes the port and the thread ends.
read_serial_data ==
    /\ reader_pc = "reading"
    /\ Len(in_waiting) > 0
    /\ Len(serial_queue) < MaxQueue
    /\ in_waiting' = Tail(in_waiting)
    /\ LET loaded == json_loads(Head(in_waiting))
       IN  IF loaded.error # "none"
           THEN /\ reader_pc' = "ended"
                /\ UNCHANGED <<serial_queue, serial_counter>>
           ELSE /\ reader_pc' = reader_pc
                /\ IF DOMAIN loaded.line # {}
                   THEN /\ serial_queue' = Append(serial_queue, loaded.line)
                        /\ serial_counter' = IF serial_counter + 1 > 10
                                              THEN 0
                                              ELSE serial_counter + 1
                   ELSE UNCHANGED <<serial_queue, serial_counter>>
    /\ UNCHANGED received

LineArrives ==
    /\ \E text \in PortTexts : line_arrives(text)
    /\ UNCHANGED <<imageVars, sensorVars, episodeVars, triggerVars, scoreVars,
                 sceneVars, lifecycleVars>>

ReadSerial ==
    /\ read_serial_data
    /\ UNCHANGED <<imageVars, sensorVars, episodeVars, triggerVars, scoreVars,
                 sceneVars, lifecycleVars>>

\* serial_queue.get(timeout=1) at line 129 of main.py gives a line, and the
\* iteration of process_serial_data runs on it
QueueGet ==
    /\ Len(serial_queue) > 0
    /\ serial_queue' = Tail(serial_queue)
    /\ process_serial_data(Head(serial_queue))
    /\ UNCHANGED <<reader_pc, in_waiting, serial_counter, received>>
    /\ UNCHANGED <<imageVars, episodeVars, triggerVars, scoreVars, sceneVars,
                 lifecycleVars>>

SerialNext == LineArrives \/ ReadSerial \/ QueueGet

SerialSpec == Init /\ [][SerialNext]_vars

-----------------------------------------------------------------------------
\* One call of compare_features (lines 79-112) on two summaries, either of
\* which may be None
ScoreFrames == Frames \cup ExtremeFrames

ScoreInit ==
    /\ ImageInit /\ SensorInit /\ EpisodeIdle /\ TriggerIdle /\ SceneIdle
    /\ LifecycleIdle /\ SerialIdle
    /\ cmp_feat1 \in ScoreFrames \cup {None}
    /\ cmp_feat2 \in ScoreFrames \cup {None}
    /\ score = -1

Compare ==
    /\ score = -1
    /\ score' = compare_features(cmp_feat1, cmp_feat2)
    /\ UNCHANGED <<cmp_feat1, cmp_feat2>>
    /\ UNCHANGED <<imageVars, sensorVars, episodeVars, triggerVars, sceneVars,
                 lifecycleVars, serialVars>>

ScoreNext == Compare

ScoreSpec == ScoreInit /\ [][ScoreNext]_vars

-----------------------------------------------------------------------------
\* Properties of the capture loop (checked under Spec)

\* A step of the capture loop that evaluated a frame
Ticked == current_time' # current_time

Last(seq) == seq[Len(seq)]
LastK(seq, k) == SubSeq(seq, Len(seq) - k + 1, Len(seq))

\* is_scene_stable() as it was on the tick before the latest one: the deque
\* keeps STABILITY_WINDOW + 1 summaries, so that window is still in it
PrevStable ==
    /\ Len(recent_features) = STABILITY_WINDOW + 1
    /\ is_scene_stable(SubSeq(recent_features, 1, STABILITY_WINDOW))

\* C1: a tick evaluated at least MIN_SEND_INTERVAL after last_sent_time returns
\* (True, "scheduled") whatever the controller state and the frame, and the
\* change/stability branch does not run on it (flag and count untouched, no
\* notification).
C1_SchedulingFloor ==
    [][(Ticked /\ current_time' - last_sent_time >= MIN_SEND_INTERVAL)
         => /\ result' = Send("scheduled")
            /\ change_detected' = change_detected
            /\ stable_count' = stable_count
            /\ ~notified']_vars

\* C1 witness: a scheduled send decided while a change was pending with one
\* stable check counted.
C1_Witness ==
    /\ result = Send("scheduled")
    /\ change_detected
    /\ stable_count = 1

C3_ConsecutiveStability ==
    result = Send("stable_change")
        => is_scene_stable(recent_features) /\ PrevStable

\* The frames fs are all F1-like against the baseline: each scores above
\* CHANGE_THRESHOLD against it, and any two of them at most STABILITY_THRESHOLD.
F1Like(baseline, fs) ==
    /\ \A i \in 1..Len(fs) : compare_features(fs[i], baseline) > CHANGE_THRESHOLD
    /\ \A i, j \in 1..Len(fs) : compare_features(fs[i], fs[j]) <= STABILITY_THRESHOLD

\* C4: after a dispatch, while the frames are all F1-like against its baseline
\* and less than MIN_SEND_INTERVAL has passed: change_detected is true from the
\* first such tick, the ticks up to the first on which is_scene_stable() holds do
\* not send (the first STABILITY_WINDOW - 1 leave stable_count 0, the next counts
\* 1), and the tick after that, the second on which is_scene_stable() holds,
\* returns (True, "stable_change") and leaves change_detected false and
\* stable_count 0.
C4_ChangeThenStabilize ==
    [][(/\ Ticked
        /\ ever_sent
        /\ since_send <= STABILITY_WINDOW
        /\ F1Like(last_sent_image,
                  Append(LastK(recent_features, since_send), Last(recent_features')))
        /\ current_time' - last_sent_time < MIN_SEND_INTERVAL)
         => IF since_send < STABILITY_WINDOW
            THEN /\ ~result'.send
                 /\ change_detected'
                 /\ stable_count' = IF since_send + 1 = STABILITY_WINDOW THEN 1 ELSE 0
            ELSE /\ result' = Send("stable_change")
                 /\ ~change_detected'
                 /\ stable_count' = 0]_vars

\* C4 witness: a stable_change send that ends a run of F1-like frames.
C4_Witness ==
    /\ result = Send("stable_change")
    /\ Len(recent_features) = STABILITY_WINDOW + 1
    /\ \A i \in 1..STABILITY_WINDOW :
          recent_features[i] = recent_features[i + 1]

\* C5 as claimed: while a dispatch is in flight the capture loop can take its
\* next tick.
C5_DispatchDoesNotBlock ==
    loop_pc = "dispatch" => ENABLED CaptureTick

\* C6: a tick that returns a send decision makes last_sent_image the summary
\* of that tick's frame and last_sent_time the clock of that tick; a tick that
\* returns no send leaves both; last_sent_image is None exactly while no tick
\* has returned a send decision.
C6_Baseline ==
    /\ [][Ticked =>
            IF result'.send
            THEN /\ last_sent_image' = Last(recent_features')
                 /\ last_sent_time' >= current_time'
                 /\ last_sent_time' <= current_time' + MaxLatency
            ELSE /\ last_sent_image' = last_sent_image
                 /\ last_sent_time' = last_sent_time]_vars
    /\ []((last_sent_image = None) <=> ~ever_sent)

\* C6 witness: the baseline is an earlier frame than the latest captured one.
C6_Witness ==
    /\ ever_sent
    /\ since_send >= 1
    /\ last_sent_image # Last(recent_features)

\* C7: the return of a dispatch, successful or failed, leaves every
\* ImageAnalyzer field as the tick that decided the send left it.
C7_DispatchDecoupled ==
    [][(loop_pc = "dispatch" \/ response' # response) /\ ~Ticked
         => UNCHANGED analyzerVars]_vars

\* C7 witness: a dispatch has failed and a later tick decided not to send.
C7_Witness ==
    /\ response = "failed"
    /\ since_send >= 1
    /\ last_sent_image # None

-----------------------------------------------------------------------------
\* Properties of the sensor loop (C8 under EpisodeSpec, C9 and C10 under
\* SensorSpec)

SpanOf(h) == SeqMax(h) - SeqMin(h)

\* The five further readings of a finished episode lie within a 5-point range
EpisodeClustered ==
    /\ ep_step = EpisodeLength
    /\ SpanOf(gsr_history) <= 5

\* C8 as claimed: the reading of 90 sets gsr_change_detected, and five further
\* readings within a 5-point range raise the trigger exactly once and leave
\* last_stable_gsr at the fifth of them.
C8_EpisodeFinalReading ==
    /\ ep_step = 1 => gsr_change_detected
    /\ EpisodeClustered
         => /\ ep_raises = 1
            /\ last_stable_gsr = <<gsr_history[GSR_STABILITY_WINDOW]>>

\* C8 amended: the reading of 90 sets gsr_change_detected, and five further
\* readings within a 5-point range raise the trigger exactly once and leave
\* last_stable_gsr at the reading that raised it: the fifth of them, or the
\* fourth when the 90 and the first four already lie within a 5-point range.
C8_EpisodeTriggerReading ==
    /\ ep_step = 1 => gsr_change_detected
    /\ EpisodeClustered
         => /\ ep_raises = 1
            /\ last_stable_gsr =
                 IF SpanOf(EpisodeJump \o SubSeq(gsr_history, 1, GSR_STABILITY_WINDOW - 1)) <= 5
                 THEN <<gsr_history[GSR_STABILITY_WINDOW - 1]>>
                 ELSE <<gsr_history[GSR_STABILITY_WINDOW]>>

\* C8 witness: an episode whose trigger was raised by the fourth further
\* reading, which differs from the fifth.
C8_Witness ==
    /\ EpisodeClustered
    /\ ep_raises = 1
    /\ last_stable_gsr = <<gsr_history[GSR_STABILITY_WINDOW - 1]>>
    /\ gsr_history[GSR_STABILITY_WINDOW - 1] # gsr_history[GSR_STABILITY_WINDOW]

\* C9 as claimed: when the trigger is raised, every reading of the stable
\* history arrived at or after the reading that set gsr_change_detected.
C9_JumpThenPlateau ==
    raised => change_age >= GSR_STABILITY_WINDOW

\* C10: a reading processed while last_stable_gsr is unset sets it, to that
\* reading, exactly when the history now holds GSR_STABILITY_WINDOW readings
\* with max - min <= GSR_STABILITY_THRESHOLD, and neither raises the trigger
\* nor sets gsr_change_detected.
C10_Bootstrap ==
    [][(last_stable_gsr = Unset /\ gsr_history' # gsr_history)
         => /\ last_stable_gsr' =
                 IF /\ Len(gsr_history') = GSR_STABILITY_WINDOW
                    /\ SpanOf(gsr_history') <= GSR_STABILITY_THRESHOLD
                 THEN <<gsr_history'[Len(gsr_history')]>>
                 ELSE Unset
            /\ ~raised'
            /\ shared_trigger_capture' = shared_trigger_capture
            /\ ~gsr_change_detected']_vars

\* C10 witness: the bootstrap has happened on a reading that neither raised the
\* trigger nor flagged a change, after readings that were not yet stable.
C10_Witness ==
    /\ last_stable_gsr = <<55>>
    /\ gsr_history = <<50, 50, 55, 55, 55>>
    /\ shared_trigger_capture = 0
    /\ ~gsr_change_detected
    /\ ~raised

-----------------------------------------------------------------------------
\* Properties of the shared trigger and the intensity level

\* C11: the trigger is a flag, not a count of raises.  It is 1 exactly while
\* line 178 has run at least once since the latest consume, however often it
\* ran (the sensor loop sets it and never clears it); a consume reads 1 if
\* there was a raise since the consume before it, whether one or several, and
\* 0 otherwise, and leaves the flag 0.
C11_FlagCoalescing ==
    /\ [](shared_trigger_capture = IF unconsumed > 0 THEN 1 ELSE 0)
    /\ [][(force_read' # force_read \/ unconsumed' < unconsumed)
            => /\ force_read' = (IF unconsumed > 0 THEN 1 ELSE 0)
               /\ shared_trigger_capture' = 0]_vars

\* C11 witness: a consume read 1 after line 178 had run twice, and the next
\* consume, with no raise in between, has not happened yet.
C11_Witness ==
    /\ force_read = 1
    /\ coalesced = 2
    /\ unconsumed = 0
    /\ shared_trigger_capture = 0

\* The levels the claim lists for the boundary readings
BoundaryLevels ==
    (0 :> 2) @@ (29 :> 2) @@ (30 :> 3) @@ (49 :> 3) @@
    (50 :> 5) @@ (84 :> 5) @@ (85 :> 6) @@ (1000 :> 6)

\* C12: once a reading has been processed, shared_num_instruments is 2, 3, 5
\* or 6 as the latest reading g is below 30, in 30..49, in 50..84 or at least
\* 85, whatever the history, last_stable_gsr and gsr_change_detected are (so
\* 0, 29, 30, 49, 50, 84, 85, 1000 give 2, 2, 3, 3, 5, 5, 6, 6); and a reading
\* that is not below the one before it does not lower the level.
C12_IntensityMapping ==
    /\ [](gsr_history # <<>> =>
            LET g == Last(gsr_history)
            IN  /\ shared_num_instruments =
                     (CASE g < 30 -> 2
                        [] g >= 30 /\ g < 50 -> 3
                        [] g >= 50 /\ g < 85 -> 5
                        [] g >= 85 -> 6)
                /\ g \in DOMAIN BoundaryLevels
                     => shared_num_instruments = BoundaryLevels[g])
    /\ [][(gsr_history # <<>> /\ Last(gsr_history') >= Last(gsr_history))
            => shared_num_instruments' >= shared_num_instruments]_vars

\* C12 witness: the level of a reading of 30 that follows a reading of 1000,
\* while a change is flagged against last_stable_gsr = 50.
C12_Witness ==
    /\ Len(gsr_history) >= 2
    /\ Last(gsr_history) = 30
    /\ gsr_history[Len(gsr_history) - 1] = 1000
    /\ shared_num_instruments = 3
    /\ gsr_change_detected
    /\ last_stable_gsr = <<50>>

-----------------------------------------------------------------------------
\* Properties of the stability window (checked under Spec) and of the
\* difference score (checked under ScoreSpec)

\* C13: is_scene_stable() is false with fewer than STABILITY_WINDOW summaries
\* in the deque; otherwise it is true exactly when each of the consecutive
\* pairs among the latest STABILITY_WINDOW summaries scores at most
\* STABILITY_THRESHOLD, so that the oldest summary of a full deque has no
\* influence.
C13_StabilityGating ==
    LET n == Len(recent_features)
    IN  /\ is_scene_stable(recent_features) =
             (/\ n >= STABILITY_WINDOW
              /\ \A i \in 1..(n - 1) :
                    i > n - STABILITY_WINDOW
                      => compare_features(recent_features[i], recent_features[i + 1])
                           <= STABILITY_THRESHOLD)
        /\ n = STABILITY_WINDOW + 1
             => is_scene_stable(recent_features) = is_scene_stable(Tail(recent_features))

\* C13 witness: a full deque that is stable although its oldest pair is not.
C13_Witness ==
    /\ recent_features = <<"F0", "FW", "FW", "F1">>
    /\ compare_features("F0", "FW") > STABILITY_THRESHOLD
    /\ is_scene_stable(recent_features)

\* C15: recent_features never holds more than STABILITY_WINDOW + 1 summaries;
\* a tick appends one summary behind those already held, in their order, and
\* drops the oldest one when the deque was full; nothing else changes the
\* deque.
C15_WindowBound ==
    /\ [](Len(recent_features) <= STABILITY_WINDOW + 1)
    /\ [][IF Ticked
          THEN /\ Len(recent_features') =
                    Min(Len(recent_features) + 1, STABILITY_WINDOW + 1)
               /\ SubSeq(recent_features', 1, Len(recent_features') - 1) =
                    (IF Len(recent_features) = STABILITY_WINDOW + 1
                     THEN Tail(recent_features)
                     ELSE recent_features)
          ELSE recent_features' = recent_features]_vars

\* C15 witness: a full deque, more than STABILITY_WINDOW + 1 ticks after the
\* analyzer was made (a send tick and STABILITY_WINDOW + 1 ticks after it).
C15_Witness ==
    /\ Len(recent_features) = STABILITY_WINDOW + 1
    /\ ever_sent
    /\ since_send = STABILITY_WINDOW + 1
    /\ recent_features[1] # recent_features[2]

\* C16: the score of two summaries is at least 0 and at most 1.0.
C16_ScoreBounded ==
    (score # -1 /\ cmp_feat1 # None /\ cmp_feat2 # None)
        => score >= 0 /\ score <= One

\* C16 witness: a black and a white frame, whose three histogram distances
\* are each above 1.0 before clamping, score 1.0.
C16_Witness ==
    /\ cmp_feat1 = "FK"
    /\ cmp_feat2 = "FL"
    /\ compareHist(extract_features("FK").hist_h, extract_features("FL").hist_h) > 10000
    /\ score = One

\* C17: the score of a summary against itself is 0.
C17_SelfDistanceZero ==
    (score # -1 /\ cmp_feat1 # None /\ cmp_feat2 = cmp_feat1) => score = 0

\* C17 witness: the white frame compared with itself.
C17_Witness ==
    /\ cmp_feat1 = "FL"
    /\ cmp_feat2 = "FL"
    /\ score = 0

\* C18: the score of a summary against an absent baseline is 1.0.
C18_ColdStart ==
    (score # -1 /\ cmp_feat1 # None /\ cmp_feat2 = None) => score = One

\* C18 witness: a frame compared with None.
C18_Witness ==
    /\ cmp_feat1 = "F0"
    /\ cmp_feat2 = None
    /\ score = One

-----------------------------------------------------------------------------
\* Properties of the sensor loop on lines it cannot use (checked under LineSpec)

\* C14: an iteration on a line without gsr, or with a gsr that int() rejects,
\* leaves gsr_history, last_stable_gsr, gsr_change_detected,
\* shared_num_instruments and shared_trigger_capture as they were; and after
\* such an iteration the loop can still process a reading (its next
\* iteration on an integer reading appends it to the history).
C14_RejectedReading ==
    /\ [][sensor_error' # "none" => UNCHANGED gsrVars]_vars
    /\ [][(sensor_error # "none" /\ sensor_error' = "none")
            => /\ gsr_history' # <<>>
               /\ Last(gsr_history') \in TriggerReadings \cup {65}
               /\ shared_num_instruments' = num_instruments(Last(gsr_history'))]_vars
    /\ [](sensor_error # "none" => ENABLED ProcessPlain)

\* C14 witness: int() has rejected the gsr of a line with TypeError while a
\* change was flagged and one more reading of 90 would raise the trigger.
C14_Witness ==
    /\ sensor_error = "TypeError"
    /\ gsr_change_detected
    /\ gsr_history = <<50, 90, 90, 90, 90>>
    /\ last_stable_gsr = <<50>>
    /\ shared_num_instruments = 6
    /\ shared_trigger_capture = 0

-----------------------------------------------------------------------------
\* Properties of the change flag of the analyzer (C19 under Spec)

\* C19: change_detected goes from false to true only on a tick whose frame
\* scores above CHANGE_THRESHOLD against last_sent_image; that tick prints the
\* notification and starts the count of stable checks anew (it leaves 1 if
\* is_scene_stable() holds on it, else 0); a tick prints the notification only
\* if it makes that transition, so none is printed while the flag is true;
\* and the flag goes back to false only on a send with reason stable_change,
\* so that there is one between any two such transitions.
C19_EdgeTriggered ==
    [][/\ (~change_detected /\ change_detected')
            => /\ Ticked
               /\ notified'
               /\ last_sent_image # None
               /\ last_sent_image' = last_sent_image
               /\ compare_features(Last(recent_features'), last_sent_image)
                    > CHANGE_THRESHOLD
               /\ stable_count' = IF is_scene_stable(recent_features') THEN 1 ELSE 0
       /\ (Ticked /\ notified') => (~change_detected /\ change_detected')
       /\ (change_detected /\ ~change_detected')
            => /\ Ticked
               /\ result' = Send("stable_change")]_vars

\* C19 witness: a change has been flagged against the baseline of an earlier
\* send, on a tick on which the scene was stable.
C19_Witness ==
    /\ notified
    /\ change_detected
    /\ stable_count = 1
    /\ since_send >= 1
    /\ last_sent_image # None

\* C20 as claimed: once the scene has settled, a change_detected that is
\* true becomes false at some later tick.
C20_SettledSceneClears ==
    (settled /\ change_detected) ~> ~change_detected

-----------------------------------------------------------------------------
\* Invariants of the sensor loop (C21 under SensorSpec)

\* C21: gsr_history never holds more than GSR_STABILITY_WINDOW readings;
\* gsr_change_detected is true only while last_stable_gsr is set;
\* last_stable_gsr, once set, stays set; and line 178 runs only on a reading
\* at which gsr_change_detected was true when line 173 tested it (true before
\* the reading, or set by it at line 169 because it is GSR_CHANGE_THRESHOLD or
\* more away from last_stable_gsr), and that reading leaves the trigger 1,
\* gsr_change_detected false and last_stable_gsr at itself; the trigger
\* changes on no other reading.
C21_SensorInvariant ==
    /\ [](/\ Len(gsr_history) <= GSR_STABILITY_WINDOW
          /\ gsr_change_detected => last_stable_gsr # Unset)
    /\ [][/\ last_stable_gsr # Unset => last_stable_gsr' # Unset
          /\ raised'
               => /\ \/ gsr_change_detected
                     \/ /\ last_stable_gsr # Unset
                        /\ Abs(Last(gsr_history') - last_stable_gsr[1])
                             >= GSR_CHANGE_THRESHOLD
                  /\ shared_trigger_capture' = 1
                  /\ ~gsr_change_detected'
                  /\ last_stable_gsr' = <<Last(gsr_history')>>
          /\ shared_trigger_capture' # shared_trigger_capture => raised']_vars

\* C21 witness: the trigger has been raised by the fifth reading of 90 after
\* readings of 50, the change having been flagged since the first of them.
C21_Witness ==
    /\ raised
    /\ change_age = GSR_STABILITY_WINDOW
    /\ gsr_history = <<90, 90, 90, 90, 90>>
    /\ last_stable_gsr = <<90>>
    /\ ~gsr_change_detected
    /\ shared_trigger_capture = 1

-----------------------------------------------------------------------------
\* Properties of the camera process control (C22 under LifecycleSpec)

\* The function h returns in this step
Returns(h) == handler_pc[h] = "locked" /\ handler_pc'[h] = "idle"

\* C22 as claimed: at most one camera process started by on_start is alive
\* at any time; on_start with camera_running true starts no process and
\* reports already_running; on_stop with camera_running false reports
\* not_running; and whenever on_stop or cleanup returns, camera_running is
\* false and camera_process is None.
C22_LifecycleExclusion ==
    /\ [](Cardinality(alive) <= 1)
    /\ [][/\ (Returns("on_start") /\ camera_running)
               => /\ camera_status' = "already_running"
                  /\ alive' = alive
                  /\ started' = started
          /\ (Returns("on_stop") /\ ~camera_running)
               => camera_status' = "not_running"
          /\ (Returns("on_stop") \/ Returns("cleanup"))
               => /\ ~camera_running'
                  /\ camera_process' = Unset]_vars

-----------------------------------------------------------------------------
\* Properties of the serial ingestion (C23 under SerialSpec)

\* C23 as claimed: a line that is not valid JSON, or cannot be decoded, does
\* not end the ingestion: whenever a well-formed non-empty line has been
\* received on the port and is waiting there, read_serial_data is still
\* reading, so that the line is put on serial_queue and processed.
C23_IngestionSurvives ==
    (\E i \in 1..Len(in_waiting) : well_formed(in_waiting[i]))
        => reader_pc = "reading"

====
